---- MODULE Spec2Model ----
(***************************************************************************)
(* Model of the three-stage response orchestrator of CharacterLLM:         *)
(* app/core/response/flow.py (ResponseFlow.process and its helpers), the   *)
(* generation client it calls (app/core/llm/openai_client.py) and the      *)
(* recollection store it queries (app/core/memory/vector_store.py).        *)
(*                                                                         *)
(* One orchestration run is an async generator.  Every "await" of the      *)
(* source is a suspension point and is one pc value of the model; the      *)
(* code between two suspension points runs without interleaving on the     *)
(* event loop and is one action.  The retrieval task created with          *)
(* asyncio.create_task is a second control flow, tracked by memory_task.   *)
(***************************************************************************)
EXTENDS Integers, Sequences, FiniteSets, TLC

VARIABLES
    client_async,   \* the client is OpenAIClient as written: generate_response is "async def"
    as_main,        \* flow.py executed as __main__ (binds the name json, flow.py:282)
    store,          \* ChromaMemoryStore: persona -> its collection, if any
    runs,           \* number of process() runs started so far
    pc,             \* position of the current run of ResponseFlow.process
    character_id,   \* argument of the current run
    needs_memory,   \* flow.py:44: "yes", "no", or "unset" before the classifier returned
    immediate_resp, \* flow.py:52
    memory_task,    \* flow.py:53, the asyncio task: [state, result]
    memories,       \* flow.py:59
    calls,          \* the generation calls this run has issued so far, in order
    events,         \* the events this run has yielded so far, in order
    fatal,          \* a call of this run could not reach the generation backend
    conversation_history, \* argument of the current run (flow.py:41)
    prompts,        \* the history turns placed in the prompt of each call of calls
    stream,         \* what event_generator has sent to the client for this run
    retrieved,      \* persona -> the lists its completed retrievals returned, in order
    structured,     \* the generate_structured_response calls made so far
    memory_ops,     \* ChromaMemoryStore used directly: ids issued, last operation
    legacy          \* response_flow.py ResponseFlow: retained history, calls in flight

vars == <<client_async, as_main, store, runs, pc, character_id, needs_memory, immediate_resp,
          memory_task, memories, calls, events, fatal, conversation_history, prompts,
          stream, retrieved, structured, memory_ops, legacy>>

(***************************************************************************)
(* Bounds of the model.                                                    *)
(***************************************************************************)
MaxRuns == 2

(***************************************************************************)
(* Texts.  A text is [chars, tail]: the characters of chars followed by    *)
(* tail further non-blank characters (long prose is not spelt out).        *)
(***************************************************************************)
Text(cs, n) == [chars |-> cs, tail |-> n]

EmptyText == Text(<<>>, 0)

TextLen(t) == Len(t.chars) + t.tail

IsBlank(c) == c \in {" ", "\n"}

RECURSIVE LStrip(_)
LStrip(cs) ==
    IF cs # <<>> /\ IsBlank(Head(cs)) THEN LStrip(Tail(cs)) ELSE cs

RECURSIVE RStrip(_)
RStrip(cs) ==
    IF cs # <<>> /\ IsBlank(cs[Len(cs)])
    THEN RStrip(SubSeq(cs, 1, Len(cs) - 1))
    ELSE cs

\* str.strip(): leading and trailing whitespace removed
Strip(t) ==
    IF t.tail > 0
    THEN Text(LStrip(t.chars), t.tail)
    ELSE Text(RStrip(LStrip(t.chars)), 0)

UpperChar(c) ==
    CASE c = "y" -> "Y"
      [] c = "e" -> "E"
      [] c = "s" -> "S"
      [] c = "n" -> "N"
      [] c = "o" -> "O"
      [] OTHER -> c

\* str.upper()
Upper(t) == Text([i \in 1..Len(t.chars) |-> UpperChar(t.chars[i])], t.tail)

(***************************************************************************)
(* Generation client.  A backend reply is what chat.completions.create     *)
(* does: it returns a completion with content, one without choices, one    *)
(* whose message content is empty, or it raises (an API error of a         *)
(* reachable backend, or no connection at all).                            *)
(***************************************************************************)
Content(t) == [kind |-> "content", text |-> t]

NoChoices == [kind |-> "no_choices", text |-> EmptyText]

ApiError == [kind |-> "api_error", text |-> EmptyText]

Unreachable == [kind |-> "unreachable", text |-> EmptyText]

Returned(t) == [status |-> "ok", text |-> t, exc |-> "none"]

Raised(e) == [status |-> "raise", text |-> EmptyText, exc |-> e]

\* generate_response without the checks of openai_client.py:83-87: an
\* empty completion is returned as the empty string.
generate_response_EmptyReturned(reply) ==
    CASE reply.kind = "unreachable" -> Raised("ConnectionError")
      [] reply.kind = "api_error" -> Raised("APIError")
      [] OTHER -> Returned(reply.text)

\* OpenAIClient.generate_response: the content, or an exception (every
\* exception is re-raised by the except clause).  ResponseFlow calls it as
\* a plain function inside loop.run_in_executor and uses the value as the
\* reply text; see client_async for the client as openai_client.py has it.
generate_response(reply) ==
    CASE reply.kind = "unreachable" -> Raised("ConnectionError")
      [] reply.kind = "api_error" -> Raised("APIError")
      [] reply.kind = "no_choices" -> Raised("ValueError")
      [] reply.kind = "content" /\ TextLen(reply.text) = 0 -> Raised("ValueError")
      [] OTHER -> Returned(reply.text)

YES == Text(<<"Y", "E", "S">>, 0)

\* What the backend may answer to the relevance classifier's directive.
ClassifierReplies ==
    { Content(YES),
      Content(Text(<<" ", "y", "e", "s", "\n">>, 0)),
      Content(Text(<<"N", "O">>, 0)),
      Content(Text(<<"Y", "E", "S">>, 4)),
      Content(Text(<<" ">>, 0)),
      Content(EmptyText),
      NoChoices, ApiError, Unreachable }

\* flow.py:162, the length floor of the first supplement draft
MinSupplementLen == 180

\* What the backend may answer to a composer's directive.
ComposerReplies ==
    { Content(Text(<<"o", "k">>, 0)),
      Content(Text(<<" ">>, MinSupplementLen - 2)),
      Content(Text(<<" ">>, MinSupplementLen)),
      Content(EmptyText),
      ApiError, Unreachable }

(***************************************************************************)
(* Recollection store.  A stored recollection is [id, dist]: dist is the   *)
(* distance the similarity backend reports between it and the utterance    *)
(* of the run, counted in steps of DistStep = 0.002, so that the           *)
(* relevance 1 - distance/2 is a whole number of thousandths.              *)
(***************************************************************************)
\* No collection character_memories_<id> exists (get_collection raises).
Absent == [exists |-> FALSE, items |-> {}]

Collection(ms) == [exists |-> TRUE, items |-> ms]

Personas == {"p1", "p2"}

Memory(i, d) == [id |-> i, dist |-> d]

\* vector_store.py:297 and :304, round(1.0 - distance/2.0, 3), in thousandths
Relevance(d) == 1000 - d

\* flow.py:218, the relevance floor 0.3, in thousandths
RelevanceFloor == 300

\* flow.py:199, the default n_results of _retrieve_relevant_memories
DefaultNResults == 3

\* Contents a persona's collection may have: none, all at or below the
\* floor, more than DefaultNResults, relevances 0.301 / 0.300 / 0.299,
\* stored out of distance order, and a distance above 2 (the relevance is
\* negative; the squared L2 distance of two unit embeddings is at most 4).
Collections ==
    { Absent,
      Collection({}),
      Collection({Memory("m1", 100)}),
      Collection({Memory("m1", 700), Memory("m2", 800)}),
      Collection({Memory("m1", 100), Memory("m2", 200),
                  Memory("m3", 300), Memory("m4", 400)}),
      Collection({Memory("m1", 701), Memory("m2", 700), Memory("m3", 699)}),
      Collection({Memory("m1", 1200), Memory("m2", 500), Memory("m3", 100)}) }

\* The candidates of a collection by ascending distance (ties by id order
\* of CHOOSE), as collection.query returns them.
RECURSIVE Nearest(_)
Nearest(ms) ==
    IF ms = {} THEN <<>>
    ELSE LET m == CHOOSE x \in ms : \A y \in ms : x.dist <= y.dist
         IN  <<m>> \o Nearest(ms \ {m})

\* FirstN with n_results ignored: every candidate comes back.
FirstN_Unbounded(seq, n) == seq

\* collection.query(..., n_results=n), vector_store.py:263-268
FirstN(seq, n) == SubSeq(seq, 1, IF Len(seq) < n THEN Len(seq) ELSE n)

\* ChromaMemoryStore.query_memories(character_id, query_text, n_results,
\* return_full_fields=True) when collection.query does not raise
query_memories(st, cid, n) ==
    IF ~st[cid].exists THEN <<>>
    ELSE LET found == FirstN(Nearest(st[cid].items), n)
         IN  [i \in 1..Len(found) |->
                 [id |-> found[i].id, relevance |-> Relevance(found[i].dist)]]

\* RelevantOnly without the filter of flow.py:218.
RelevantOnly_Unfiltered(raw) == raw

\* RelevantOnly with the test of flow.py:218 written ">= 0.3".
RelevantOnly_AtOrAbove(raw) ==
    SelectSeq(raw, LAMBDA mem : mem.relevance >= RelevanceFloor)

\* flow.py:218, [mem for mem in raw_memories if mem.get('relevance', 0) > 0.3]
RelevantOnly(raw) == SelectSeq(raw, LAMBDA mem : mem.relevance > RelevanceFloor)

Found(list) == [status |-> "ok", list |-> list]

QueryRaised == [status |-> "raise", list |-> <<>>]

\* query_memories_call with the except clause of vector_store.py:252
\* removed: the ValueError of get_collection reaches the caller.
query_memories_call_Uncaught(st, cid, n, ok) ==
    IF ~st[cid].exists \/ ~ok THEN QueryRaised
    ELSE Found(query_memories(st, cid, n))

\* One call of query_memories, vector_store.py:227-317: the ValueError of
\* get_collection for a missing collection is caught and [] returned
\* (:250-253); whatever collection.query raises (ok = FALSE) is not.
query_memories_call(st, cid, n, ok) ==
    IF ~st[cid].exists THEN Found(<<>>)
    ELSE IF ~ok THEN QueryRaised
    ELSE Found(query_memories(st, cid, n))

\* _retrieve_relevant_memories(character_id, query, n_results),
\* flow.py:199-226
retrieve_relevant_memories(st, cid, n, ok) ==
    LET raw == query_memories_call(st, cid, n, ok)
    IN  IF raw.status = "raise" THEN raw ELSE Found(RelevantOnly(raw.list))

(***************************************************************************)
(* Conversation history.  A turn is named by a number; the caller passes   *)
(* the turns of the conversation so far with every request                 *)
(* (main_full.py:395-399).                                                 *)
(***************************************************************************)
Histories == { <<>>, <<1>>, <<1, 2, 3, 4, 5, 6, 7>> }

\* flow.py:254, conversation_history[-2:]
ReflexWindow == 2

\* flow.py:137, conversation_history[-3:]
SupplementWindow == 3

\* seq[-n:]
LastN(seq, n) == IF Len(seq) <= n THEN seq ELSE SubSeq(seq, Len(seq) - n + 1, Len(seq))

\* The turns each call puts in its prompt: the direct composer all of them
\* (flow.py:239), the reflex composer the last two (:254), the supplement
\* composer the last three (:134-137); the classifier (:179-193) and the
\* no-memory composer (:262-270) none.
HistoryOf(call, history) ==
    CASE call = "direct" -> history
      [] call = "reflex" -> LastN(history, ReflexWindow)
      [] call = "supplement" -> LastN(history, SupplementWindow)
      [] OTHER -> <<>>

(***************************************************************************)
(* The chat endpoint, main_full.py:381-442: event_generator turns every    *)
(* event of the run into one item of the stream, and an exception of the   *)
(* run into the item {"error": str(e)}.                                    *)
(***************************************************************************)
Chunk(ev) == [kind |-> ev.type, message |-> ev.content, memories |-> ev.memories,
              error |-> "none"]

ErrorItem(e) == [kind |-> "error", message |-> EmptyText, memories |-> <<>>, error |-> e]

(***************************************************************************)
(* ResponseFlow.process, flow.py:37-72.                                    *)
(* pc: "idle" (no run), "classify" (:44), "direct" (:47), "reflex" (:52),  *)
(* "yield_immediate" (suspended at the yield of :56), "await_memory"       *)
(* (:59), "supplement" and "supplement_retry" (:61, the two calls of       *)
(* :152 and :164), "no_memory" (:71), "done" (the generator returned),     *)
(* "raised" (an exception left the generator).                             *)
(***************************************************************************)
NoTask == [state |-> "none", result |-> <<>>]

\* The store has not been used directly (no add, update, delete or query
\* outside a run).
NoOperations ==
    [issued |-> {}, given |-> {}, cleared |-> {},
     last |-> [op |-> "none", cid |-> "none", returned |-> "none", list |-> <<>>]]

\* The history-retaining orchestrator of response_flow.py has served no
\* call.
NoLegacyCalls == [history |-> <<>>, inflight |-> {}, completed |-> <<>>, started |-> 0]

\* Event without the "memories" key of flow.py:67.
Event_MemoriesDropped(type, content, mems) ==
    [type |-> type, content |-> content, memories |-> <<>>]

Event(type, content, mems) == [type |-> type, content |-> content, memories |-> mems]

Init ==
    /\ client_async \in BOOLEAN
    /\ as_main \in BOOLEAN
    /\ store \in [Personas -> Collections]
    /\ runs = 0
    /\ pc = "idle"
    /\ character_id = "p1"
    /\ needs_memory = "unset"
    /\ immediate_resp = EmptyText
    /\ memory_task = NoTask
    /\ memories = <<>>
    /\ calls = <<>>
    /\ events = <<>>
    /\ fatal = FALSE
    /\ conversation_history = <<>>
    /\ prompts = <<>>
    /\ stream = <<>>
    /\ retrieved = [p \in Personas |-> <<>>]
    /\ structured = <<>>
    /\ memory_ops = NoOperations
    /\ legacy = NoLegacyCalls

\* Start for an orchestrator that keeps the turns of earlier runs and
\* puts the caller's after them.
Start_RetainingHistory(cid, history) ==
    /\ pc \in {"idle", "done", "raised"}
    /\ runs < MaxRuns
    /\ runs' = runs + 1
    /\ pc' = "classify"
    /\ character_id' = cid
    /\ conversation_history' = conversation_history \o history
    /\ needs_memory' = "unset"
    /\ immediate_resp' = EmptyText
    /\ memory_task' = NoTask
    /\ memories' = <<>>
    /\ calls' = <<"classifier">>
    /\ prompts' = <<HistoryOf("classifier", history)>>
    /\ events' = <<>>
    /\ stream' = <<>>
    /\ fatal' = FALSE
    /\ UNCHANGED <<client_async, as_main, store, retrieved, structured, memory_ops, legacy>>

\* The caller iterates process(character_id, ..., conversation_history):
\* the generator runs to its first await, the executor call of
\* _needs_memory (flow.py:44, :194).  event_generator opens a new stream
\* (main_full.py:388-399).
Start(cid, history) ==
    /\ pc \in {"idle", "done", "raised"}
    /\ runs < MaxRuns
    /\ runs' = runs + 1
    /\ pc' = "classify"
    /\ character_id' = cid
    /\ conversation_history' = history
    /\ needs_memory' = "unset"
    /\ immediate_resp' = EmptyText
    /\ memory_task' = NoTask
    /\ memories' = <<>>
    /\ calls' = <<"classifier">>
    /\ prompts' = <<HistoryOf("classifier", history)>>
    /\ events' = <<>>
    /\ stream' = <<>>
    /\ fatal' = FALSE
    /\ UNCHANGED <<client_async, as_main, store, retrieved, structured, memory_ops, legacy>>

\* An exception leaves the generator: no further event of this run.  The
\* except clause of event_generator sends its text (main_full.py:435-440).
Fail(exc) ==
    /\ pc' = "raised"
    /\ stream' = Append(stream, ErrorItem(exc))

Propagate(reply) ==
    /\ Fail(generate_response(reply).exc)
    /\ fatal' = (fatal \/ reply.kind = "unreachable")

\* A yield of process, and the item event_generator makes of the event
\* (main_full.py:400-419).
Yield(ev) ==
    /\ events' = Append(events, ev)
    /\ stream' = Append(stream, Chunk(ev))

\* The next generation call and the history turns of its prompt.
Call(name) ==
    /\ calls' = Append(calls, name)
    /\ prompts' = Append(prompts, HistoryOf(name, conversation_history))

\* _needs_memory, flow.py:179-197, and the branch of flow.py:46.
NeedsMemoryOf(text) == Upper(Strip(text)) = YES

\* ClassifierReturns with the retrieval task created together with the
\* reflex call, before the reflex call is awaited.
ClassifierReturns_EarlyTask(reply) ==
    /\ pc = "classify"
    /\ LET r == generate_response(reply)
       IN  IF client_async
           THEN /\ Fail("AttributeError")
                /\ UNCHANGED <<needs_memory, calls, prompts, memory_task, fatal>>
           ELSE IF r.status = "raise"
           THEN /\ Propagate(reply)
                /\ UNCHANGED <<needs_memory, calls, prompts, memory_task>>
           ELSE /\ needs_memory' = (IF NeedsMemoryOf(r.text) THEN "yes" ELSE "no")
                /\ pc' = IF NeedsMemoryOf(r.text) THEN "reflex" ELSE "direct"
                /\ Call(IF NeedsMemoryOf(r.text) THEN "reflex" ELSE "direct")
                /\ memory_task' = IF NeedsMemoryOf(r.text)
                                  THEN [state |-> "pending", result |-> <<>>]
                                  ELSE memory_task
                /\ UNCHANGED <<fatal, stream>>
    /\ UNCHANGED <<client_async, as_main, store, runs, character_id, immediate_resp,
                   memories, events, conversation_history, retrieved, structured, memory_ops, legacy>>

\* The classifier's executor call returns.  With generate_response a
\* coroutine function (openai_client.py:61) the lambda of flow.py:195
\* returns a coroutine object that nothing awaits, and result.strip()
\* (flow.py:197) raises AttributeError whatever the backend would answer.
ClassifierReturns(reply) ==
    /\ pc = "classify"
    /\ LET r == generate_response(reply)
       IN  IF client_async
           THEN /\ Fail("AttributeError")
                /\ UNCHANGED <<needs_memory, calls, prompts, fatal>>
           ELSE IF r.status = "raise"
           THEN /\ Propagate(reply)
                /\ UNCHANGED <<needs_memory, calls, prompts>>
           ELSE /\ needs_memory' = (IF NeedsMemoryOf(r.text) THEN "yes" ELSE "no")
                /\ pc' = IF NeedsMemoryOf(r.text) THEN "reflex" ELSE "direct"
                /\ Call(IF NeedsMemoryOf(r.text) THEN "reflex" ELSE "direct")
                /\ UNCHANGED <<fatal, stream>>
    /\ UNCHANGED <<client_async, as_main, store, runs, character_id, immediate_resp,
                   memory_task, memories, events, conversation_history, retrieved,
                   structured, memory_ops, legacy>>

\* _generate_direct_response, flow.py:228-245, then flow.py:48-49.
DirectReturns(reply) ==
    /\ pc = "direct"
    /\ LET r == generate_response(reply)
       IN  IF r.status = "raise"
           THEN /\ Propagate(reply)
                /\ UNCHANGED events
           ELSE /\ Yield(Event("direct", r.text, <<>>))
                /\ pc' = "done"
                /\ UNCHANGED fatal
    /\ UNCHANGED <<client_async, as_main, store, runs, character_id, needs_memory,
                   immediate_resp, memory_task, memories, calls, prompts,
                   conversation_history, retrieved, structured, memory_ops, legacy>>

\* asyncio.create_task(self._retrieve_relevant_memories(...)), flow.py:53:
\* the task is scheduled and has not run yet.
CreateMemoryTask == [state |-> "pending", result |-> <<>>]

\* ReflexReturns with the yield of the immediate event placed after
\* "await memory_task" instead of before it.
ReflexReturns_YieldAfterAwait(reply) ==
    /\ pc = "reflex"
    /\ LET r == generate_response(reply)
       IN  IF r.status = "raise"
           THEN /\ Propagate(reply)
                /\ UNCHANGED <<immediate_resp, memory_task>>
           ELSE /\ immediate_resp' = r.text
                /\ memory_task' = CreateMemoryTask
                /\ pc' = "await_memory"
                /\ UNCHANGED <<fatal, stream>>
    /\ UNCHANGED <<client_async, as_main, store, runs, character_id, needs_memory,
                   memories, calls, prompts, events, conversation_history, retrieved,
                   structured, memory_ops, legacy>>

\* _generate_immediate_response returns (flow.py:52, :247-260); with no
\* await in between, process creates the retrieval task (:53) and yields
\* the immediate event (:56).
ReflexReturns(reply) ==
    /\ pc = "reflex"
    /\ LET r == generate_response(reply)
       IN  IF r.status = "raise"
           THEN /\ Propagate(reply)
                /\ UNCHANGED <<immediate_resp, memory_task, events>>
           ELSE /\ immediate_resp' = r.text
                /\ memory_task' = CreateMemoryTask
                /\ Yield(Event("immediate", r.text, <<>>))
                /\ pc' = "yield_immediate"
                /\ UNCHANGED fatal
    /\ UNCHANGED <<client_async, as_main, store, runs, character_id, needs_memory,
                   memories, calls, prompts, conversation_history, retrieved,
                   structured, memory_ops, legacy>>

\* The caller asks for the next event: process resumes after the yield of
\* flow.py:56 and suspends at "await memory_task" (:59).
ResumeAfterImmediate ==
    /\ pc = "yield_immediate"
    /\ pc' = "await_memory"
    /\ UNCHANGED <<client_async, as_main, store, runs, character_id, needs_memory,
                   immediate_resp, memory_task, memories, calls, events, fatal,
                   conversation_history, prompts, stream, retrieved, structured, memory_ops, legacy>>

\* RetrievalStart for a query that opens the collection with
\* create_collection: a missing collection comes into being.
RetrievalStart_Creating ==
    /\ memory_task.state = "pending"
    /\ pc \in {"yield_immediate", "await_memory"}
    /\ memory_task' = [state |-> "querying", result |-> <<>>]
    /\ store' = [store EXCEPT ![character_id].exists = TRUE]
    /\ UNCHANGED <<client_async, as_main, runs, pc, character_id, needs_memory,
                   immediate_resp, memories, calls, events, fatal,
                   conversation_history, prompts, stream, retrieved, structured, memory_ops, legacy>>

\* The event loop runs the retrieval task up to its executor call of
\* query_memories (flow.py:201-215).  It can do so whenever process is
\* suspended: at the yield of :56 or at the await of :59.
RetrievalStart ==
    /\ memory_task.state = "pending"
    /\ pc \in {"yield_immediate", "await_memory"}
    /\ memory_task' = [state |-> "querying", result |-> <<>>]
    /\ UNCHANGED <<client_async, as_main, store, runs, pc, character_id, needs_memory,
                   immediate_resp, memories, calls, events, fatal,
                   conversation_history, prompts, stream, retrieved, structured, memory_ops, legacy>>

\* RetrievalReturns with a query that takes what it returns out of the
\* collection.
RetrievalReturns_Consuming(ok) ==
    /\ memory_task.state = "querying"
    /\ ok \/ store[character_id].exists
    /\ LET out == retrieve_relevant_memories(store, character_id, DefaultNResults, ok)
           ids == {out.list[i].id : i \in 1..Len(out.list)}
       IN  IF out.status = "ok"
           THEN /\ memory_task' = [state |-> "done", result |-> out.list]
                /\ retrieved' = [retrieved EXCEPT
                                    ![character_id] = Append(@, out.list)]
                /\ store' = [store EXCEPT ![character_id].items =
                                 {m \in @ : m.id \notin ids}]
           ELSE /\ memory_task' = [state |-> "raised", result |-> <<>>]
                /\ UNCHANGED <<retrieved, store>>
    /\ UNCHANGED <<client_async, as_main, runs, pc, character_id, needs_memory,
                   immediate_resp, memories, calls, events, fatal,
                   conversation_history, prompts, stream, structured, memory_ops, legacy>>

\* The executor call returns the candidates, filtered by flow.py:218, or
\* collection.query raised (vector_store.py:263; only a missing collection
\* is caught, :250-253) and the task ends with that exception.  The call
\* reads the collection and writes nothing.
RetrievalReturns(ok) ==
    /\ memory_task.state = "querying"
    /\ ok \/ store[character_id].exists
    /\ LET out == retrieve_relevant_memories(store, character_id, DefaultNResults, ok)
       IN  IF out.status = "ok"
           THEN /\ memory_task' = [state |-> "done", result |-> out.list]
                /\ retrieved' = [retrieved EXCEPT
                                    ![character_id] = Append(@, out.list)]
           ELSE /\ memory_task' = [state |-> "raised", result |-> <<>>]
                /\ UNCHANGED retrieved
    /\ UNCHANGED <<client_async, as_main, store, runs, pc, character_id, needs_memory,
                   immediate_resp, memories, calls, events, fatal,
                   conversation_history, prompts, stream, structured, memory_ops, legacy>>

\* AwaitMemoryReturns with the test of flow.py:60 written
\* "if memories is not None": an empty result takes the supplement path.
AwaitMemoryReturns_NotNone ==
    /\ pc = "await_memory"
    /\ memory_task.state \in {"done", "raised"}
    /\ IF memory_task.state = "raised"
       THEN /\ Fail("QueryError")
            /\ UNCHANGED <<memories, calls, prompts>>
       ELSE /\ memories' = memory_task.result
            /\ IF as_main
               THEN pc' = "supplement" /\ Call("supplement") /\ UNCHANGED stream
               ELSE Fail("NameError") /\ UNCHANGED <<calls, prompts>>
    /\ UNCHANGED <<client_async, as_main, store, runs, character_id, needs_memory,
                   immediate_resp, memory_task, events, fatal, conversation_history,
                   retrieved, structured, memory_ops, legacy>>

\* "memories = await memory_task" (flow.py:59) and the branch of :60.  With
\* recollections, _generate_supplementary_response runs to its first
\* executor call (:152); formatting them calls json.dumps (:96), a name the
\* module binds only when run as __main__ (:282).
AwaitMemoryReturns ==
    /\ pc = "await_memory"
    /\ memory_task.state \in {"done", "raised"}
    /\ IF memory_task.state = "raised"
       THEN /\ Fail("QueryError")
            /\ UNCHANGED <<memories, calls, prompts>>
       ELSE /\ memories' = memory_task.result
            /\ IF memory_task.result # <<>>
               THEN IF as_main
                    THEN pc' = "supplement" /\ Call("supplement") /\ UNCHANGED stream
                    ELSE Fail("NameError") /\ UNCHANGED <<calls, prompts>>
               ELSE pc' = "no_memory" /\ Call("no_memory") /\ UNCHANGED stream
    /\ UNCHANGED <<client_async, as_main, store, runs, character_id, needs_memory,
                   immediate_resp, memory_task, events, fatal, conversation_history,
                   retrieved, structured, memory_ops, legacy>>

\* The first supplement draft returns (flow.py:152-171): below the floor it
\* is regenerated once, otherwise it is returned stripped (:174) and
\* process yields the supplementary event (:64-69).
SupplementReturns(reply) ==
    /\ pc = "supplement"
    /\ LET r == generate_response(reply)
       IN  IF r.status = "raise"
           THEN /\ Propagate(reply)
                /\ UNCHANGED <<calls, prompts, events>>
           ELSE IF TextLen(Strip(r.text)) < MinSupplementLen
                THEN /\ pc' = "supplement_retry"
                     /\ Call("supplement")
                     /\ UNCHANGED <<events, stream, fatal>>
                ELSE /\ Yield(Event("supplementary", Strip(r.text), memories))
                     /\ pc' = "done"
                     /\ UNCHANGED <<calls, prompts, fatal>>
    /\ UNCHANGED <<client_async, as_main, store, runs, character_id, needs_memory,
                   immediate_resp, memory_task, memories, conversation_history,
                   retrieved, structured, memory_ops, legacy>>

\* SupplementRetryReturns with the length test applied to the second
\* draft as well: a short second draft is regenerated.
SupplementRetryReturns_Looping(reply) ==
    /\ pc = "supplement_retry"
    /\ LET r == generate_response(reply)
       IN  IF r.status = "raise"
           THEN /\ Propagate(reply)
                /\ UNCHANGED <<calls, prompts, events>>
           ELSE IF TextLen(Strip(r.text)) < MinSupplementLen /\ Len(calls) < 6
                THEN /\ pc' = "supplement_retry"
                     /\ Call("supplement")
                     /\ UNCHANGED <<events, stream, fatal>>
                ELSE /\ Yield(Event("supplementary", Strip(r.text), memories))
                     /\ pc' = "done"
                     /\ UNCHANGED <<calls, prompts, fatal>>
    /\ UNCHANGED <<client_async, as_main, store, runs, character_id, needs_memory,
                   immediate_resp, memory_task, memories, conversation_history,
                   retrieved, structured, memory_ops, legacy>>

\* The second draft returns (flow.py:164-174) and is accepted as it is.
SupplementRetryReturns(reply) ==
    /\ pc = "supplement_retry"
    /\ LET r == generate_response(reply)
       IN  IF r.status = "raise"
           THEN /\ Propagate(reply)
                /\ UNCHANGED events
           ELSE /\ Yield(Event("supplementary", Strip(r.text), memories))
                /\ pc' = "done"
                /\ UNCHANGED fatal
    /\ UNCHANGED <<client_async, as_main, store, runs, character_id, needs_memory,
                   immediate_resp, memory_task, memories, calls, prompts,
                   conversation_history, retrieved, structured, memory_ops, legacy>>

\* _generate_no_memory_response returns (flow.py:262-274), then :72.
NoMemoryReturns(reply) ==
    /\ pc = "no_memory"
    /\ LET r == generate_response(reply)
       IN  IF r.status = "raise"
           THEN /\ Propagate(reply)
                /\ UNCHANGED events
           ELSE /\ Yield(Event("no_memory", r.text, <<>>))
                /\ pc' = "done"
                /\ UNCHANGED fatal
    /\ UNCHANGED <<client_async, as_main, store, runs, character_id, needs_memory,
                   immediate_resp, memory_task, memories, calls, prompts,
                   conversation_history, retrieved, structured, memory_ops, legacy>>

Next ==
    \/ \E cid \in Personas, history \in Histories : Start(cid, history)
    \/ \E reply \in ClassifierReplies : ClassifierReturns(reply)
    \/ \E reply \in ComposerReplies : DirectReturns(reply)
    \/ \E reply \in ComposerReplies : ReflexReturns(reply)
    \/ ResumeAfterImmediate
    \/ RetrievalStart
    \/ \E ok \in BOOLEAN : RetrievalReturns(ok)
    \/ AwaitMemoryReturns
    \/ \E reply \in ComposerReplies : SupplementReturns(reply)
    \/ \E reply \in ComposerReplies : SupplementRetryReturns(reply)
    \/ \E reply \in ComposerReplies : NoMemoryReturns(reply)

Spec == Init /\ [][Next]_vars

(***************************************************************************)
(* OpenAIClient.generate_structured_response, openai_client.py:98-140.     *)
(* The text of a reply is spelt in tokens: "FENCE" (three backquotes),     *)
(* "json" and "js" (fence tags), "\n", " ", the JSON punctuation "{" "}"   *)
(* "[" "]" ",", "k" (a quoted key with its colon), "1" (a scalar) and "x"  *)
(* (a word of prose).                                                      *)
(***************************************************************************)
\* The number of generate_structured_response calls of a behaviour.
MaxStructuredCalls == 2

NoWhitespace(tokens) == SelectSeq(tokens, LAMBDA c : ~IsBlank(c))

RECURSIVE ValueEnd(_, _), MembersEnd(_, _), ElementsEnd(_, _)
\* The position after the JSON value that starts at s[i]; 0 if none does.
ValueEnd(s, i) ==
    IF i > Len(s) THEN 0
    ELSE CASE s[i] = "1" -> i + 1
           [] s[i] = "{" -> IF i < Len(s) /\ s[i + 1] = "}"
                            THEN i + 2 ELSE MembersEnd(s, i + 1)
           [] s[i] = "[" -> IF i < Len(s) /\ s[i + 1] = "]"
                            THEN i + 2 ELSE ElementsEnd(s, i + 1)
           [] OTHER -> 0

\* The position after the "}" closing the members that start at s[i].
MembersEnd(s, i) ==
    IF i > Len(s) \/ s[i] # "k" THEN 0
    ELSE LET e == ValueEnd(s, i + 1)
         IN  IF e = 0 \/ e > Len(s) THEN 0
             ELSE IF s[e] = "}" THEN e + 1
             ELSE IF s[e] = "," THEN MembersEnd(s, e + 1)
             ELSE 0

\* The position after the "]" closing the elements that start at s[i].
ElementsEnd(s, i) ==
    LET e == ValueEnd(s, i)
    IN  IF e = 0 \/ e > Len(s) THEN 0
        ELSE IF s[e] = "]" THEN e + 1
        ELSE IF s[e] = "," THEN ElementsEnd(s, e + 1)
        ELSE 0

Parsed(doc) == [status |-> "ok", doc |-> doc]

JSONDecodeError == [status |-> "raise", doc |-> <<>>]

\* json.loads: whitespace between tokens is skipped, the whole text must
\* be one JSON value; the value is named by its tokens.
json_loads(tokens) ==
    LET s == NoWhitespace(tokens)
    IN  IF ValueEnd(s, 1) = Len(s) + 1 THEN Parsed(s) ELSE JSONDecodeError

NoMatch == [found |-> FALSE, group |-> <<>>]

Match(tokens) == [found |-> TRUE, group |-> tokens]

\* The pairs <<a, j>>: "```json\n" is at a and "\n```" at j, after it.
FencePairs(t) ==
    { p \in (1..Len(t)) \X (1..Len(t)) :
        /\ p[1] + 2 <= Len(t)
        /\ t[p[1]] = "FENCE" /\ t[p[1] + 1] = "json" /\ t[p[1] + 2] = "\n"
        /\ p[2] >= p[1] + 3 /\ p[2] < Len(t)
        /\ t[p[2]] = "\n" /\ t[p[2] + 1] = "FENCE" }

\* re.search(r'```json\n(.*?)\n```', text, re.DOTALL), openai_client.py:127:
\* the leftmost opening, and the nearest closing after it.
FencedBlock(t) ==
    IF FencePairs(t) = {} THEN NoMatch
    ELSE LET p == CHOOSE q \in FencePairs(t) :
                      \A o \in FencePairs(t) :
                          q[1] < o[1] \/ (q[1] = o[1] /\ q[2] <= o[2])
         IN  Match(SubSeq(t, p[1] + 3, p[2] - 1))

\* re.search(r'(\{.*\})', text, re.DOTALL), openai_client.py:132: from the
\* first "{" to the last "}".
BraceSpan(t) ==
    LET opens == {i \in 1..Len(t) : t[i] = "{"}
        closes == {i \in 1..Len(t) : t[i] = "}"}
    IN  IF opens = {} THEN NoMatch
        ELSE LET f == CHOOSE i \in opens : \A o \in opens : i <= o
                 after == {i \in closes : i > f}
             IN  IF after = {} THEN NoMatch
                 ELSE LET l == CHOOSE i \in after : \A o \in after : i >= o
                      IN  Match(SubSeq(t, f, l))

\* What generate_structured_response gives its caller: the parsed value,
\* the record {"text": ..., "error": ...}, or an exception.
JsonValue(doc) ==
    [status |-> "ok", kind |-> "json", doc |-> doc, text |-> <<>>, error |-> "none"]

Unparsed(tokens, marker) ==
    [status |-> "ok", kind |-> "unparsed", doc |-> <<>>, text |-> tokens,
     error |-> marker]

StructuredRaised(exc) ==
    [status |-> "raise", kind |-> "none", doc |-> <<>>, text |-> <<>>, error |-> exc]

\* Repair with the two patterns tried in the other order.
Repair_BraceFirst(tokens) ==
    LET fenced == FencedBlock(tokens)
        braces == BraceSpan(tokens)
    IN  IF braces.found
        THEN IF json_loads(braces.group).status = "ok"
             THEN JsonValue(json_loads(braces.group).doc)
             ELSE Unparsed(tokens, "JSONDecodeError")
        ELSE IF fenced.found
        THEN IF json_loads(fenced.group).status = "ok"
             THEN JsonValue(json_loads(fenced.group).doc)
             ELSE Unparsed(tokens, "JSONDecodeError")
        ELSE Unparsed(tokens, "Failed to parse JSON")

\* openai_client.py:118-140 with the last two returns replaced by "raise".
Repair_Raising(tokens) ==
    LET fenced == FencedBlock(tokens)
        braces == BraceSpan(tokens)
    IN  IF fenced.found
        THEN IF json_loads(fenced.group).status = "ok"
             THEN JsonValue(json_loads(fenced.group).doc)
             ELSE StructuredRaised("JSONDecodeError")
        ELSE IF braces.found
        THEN IF json_loads(braces.group).status = "ok"
             THEN JsonValue(json_loads(braces.group).doc)
             ELSE StructuredRaised("JSONDecodeError")
        ELSE StructuredRaised("JSONDecodeError")

\* The handler of the direct parse's JSONDecodeError, openai_client.py:124-
\* 140: the first pattern that matches decides; when its group does not
\* parse, the inner "except Exception" returns the record with str(e).
Repair(tokens) ==
    LET fenced == FencedBlock(tokens)
        braces == BraceSpan(tokens)
    IN  IF fenced.found
        THEN IF json_loads(fenced.group).status = "ok"
             THEN JsonValue(json_loads(fenced.group).doc)
             ELSE Unparsed(tokens, "JSONDecodeError")
        ELSE IF braces.found
        THEN IF json_loads(braces.group).status = "ok"
             THEN JsonValue(json_loads(braces.group).doc)
             ELSE Unparsed(tokens, "JSONDecodeError")
        ELSE Unparsed(tokens, "Failed to parse JSON")

\* generate_structured_response, openai_client.py:98-140, for the outcome
\* r of its generate_response call (:112, awaited and not guarded).
generate_structured_response(r) ==
    IF r.status = "raise" THEN StructuredRaised(r.exc)
    ELSE IF json_loads(r.text.chars).status = "ok"
    THEN JsonValue(json_loads(r.text.chars).doc)
    ELSE Repair(r.text.chars)

Tokens(cs) == Content(Text(cs, 0))

\* What the backend may answer to a request for JSON.
StructuredReplies ==
    { Tokens(<<"{", "k", "1", "}">>),
      Tokens(<<"[", "1", ",", "1", "]">>),
      Tokens(<<"x", "FENCE", "json", "\n", "{", "k", "1", "}", "\n", "FENCE", "x">>),
      Tokens(<<"FENCE", "json", "\n", "[", "1", "]", "\n", "FENCE">>),
      Tokens(<<"FENCE", "json", "\n", "1", "\n", "FENCE">>),
      Tokens(<<"FENCE", "json", "\n", "{", "k", "{", "k", "1", "}", "}", "\n", "FENCE">>),
      Tokens(<<"FENCE", "json", "\n", "{", "k", "1", "}", "\n", "FENCE", "x",
               "FENCE", "json", "\n", "[", "1", "]", "\n", "FENCE">>),
      Tokens(<<"FENCE", "json", "\n", "{", "k", "1", "}", "FENCE">>),
      Tokens(<<"x", "FENCE", "\n", "{", "k", "1", "}", "\n", "FENCE">>),
      Tokens(<<"FENCE", "\n", "[", "1", "]", "\n", "FENCE">>),
      Tokens(<<"FENCE", "js", "\n", "[", "{", "k", "1", "}", ",", "{", "}", "]",
               "\n", "FENCE">>),
      Tokens(<<"FENCE", "json", "\n", "[", "{", "k", "1", "}", ",", "{", "}", "]",
               "\n", "FENCE">>),
      Tokens(<<"FENCE", "json", "\n", "{", "k", "\n", "FENCE", "x", "{", "k", "1", "}">>),
      Tokens(<<"{", "k", "x", "}">>),
      Tokens(<<"x", "{", "k", "1", "}", "x", "{", "}">>),
      Tokens(<<"x", "{", "k", "1", "}", "x">>),
      Tokens(<<"x", " ", "x">>),
      Tokens(<<"x", "}", "{">>),
      Tokens(<<"{", "k", "1">>),
      Tokens(<<" ">>),
      Content(EmptyText),
      NoChoices, ApiError, Unreachable }

\* A call of generate_structured_response suspended at its await of
\* generate_response (openai_client.py:112).
Pending == [state |-> "pending", reply |-> NoChoices, response |-> Raised("none"),
            result |-> StructuredRaised("none")]

Completed(reply) ==
    [state |-> "done", reply |-> reply, response |-> generate_response(reply),
     result |-> generate_structured_response(generate_response(reply))]

\* No orchestration run: only the client is used (character and memory
\* authoring, openai_client.py:436 and :579).
StructuredInit ==
    /\ client_async = TRUE
    /\ as_main = FALSE
    /\ store = [p \in Personas |-> Absent]
    /\ runs = 0
    /\ pc = "idle"
    /\ character_id = "p1"
    /\ needs_memory = "unset"
    /\ immediate_resp = EmptyText
    /\ memory_task = NoTask
    /\ memories = <<>>
    /\ calls = <<>>
    /\ events = <<>>
    /\ fatal = FALSE
    /\ conversation_history = <<>>
    /\ prompts = <<>>
    /\ stream = <<>>
    /\ retrieved = [p \in Personas |-> <<>>]
    /\ structured = <<>>
    /\ memory_ops = NoOperations
    /\ legacy = NoLegacyCalls

orchestration == <<client_async, as_main, store, runs, pc, character_id, needs_memory,
                   immediate_resp, memory_task, memories, calls, events, fatal,
                   conversation_history, prompts, stream, retrieved>>

\* generate_structured_response is called and awaits the backend.
StructuredCall ==
    /\ Len(structured) < MaxStructuredCalls
    /\ IF structured = <<>> THEN TRUE ELSE structured[Len(structured)].state = "done"
    /\ structured' = Append(structured, Pending)
    /\ UNCHANGED <<orchestration, memory_ops, legacy>>

\* The backend answers and the call returns or raises.
StructuredReturns(reply) ==
    /\ structured # <<>>
    /\ structured[Len(structured)].state = "pending"
    /\ structured' = [structured EXCEPT ![Len(structured)] = Completed(reply)]
    /\ UNCHANGED <<orchestration, memory_ops, legacy>>

StructuredNext ==
    \/ StructuredCall
    \/ \E reply \in StructuredReplies : StructuredReturns(reply)

StructuredSpec == StructuredInit /\ [][StructuredNext]_vars

(***************************************************************************)
(* The history-retaining orchestrator, response_flow.py:8-216.  One call   *)
(* of process_message runs without suspension up to "await memory_task"    *)
(* (:36; the immediate reply is generated with a blocking client call),    *)
(* and, once the retrieval task is done, from there to its return.  Calls  *)
(* of several requests interleave at that await.  An utterance is named    *)
(* by a number.                                                            *)
(***************************************************************************)
\* response_flow.py:215, the number of turns kept per character
MaxTurns == 10

\* The number of process_message calls of a behaviour.
MaxLegacyCalls == 3

\* The number of process_message calls suspended at the same time.
MaxInFlight == 2

Reply(utterance, kind) == [of |-> utterance, kind |-> kind]

\* One entry of self.conversation_history[character_id], :207-212
Turn(utterance, response) == [user_message |-> utterance, response |-> response]

\* Nine turns completed before the behaviour starts.
Earlier == [i \in 1..(MaxTurns - 1) |-> Turn(i, Reply(i, "immediate"))]

\* No orchestration run of flow.py and no structured call is under way.
NoRun ==
    /\ client_async = TRUE
    /\ as_main = FALSE
    /\ runs = 0
    /\ pc = "idle"
    /\ character_id = "p1"
    /\ needs_memory = "unset"
    /\ immediate_resp = EmptyText
    /\ memory_task = NoTask
    /\ memories = <<>>
    /\ calls = <<>>
    /\ events = <<>>
    /\ fatal = FALSE
    /\ conversation_history = <<>>
    /\ prompts = <<>>
    /\ stream = <<>>
    /\ retrieved = [p \in Personas |-> <<>>]
    /\ structured = <<>>

LegacyInit ==
    /\ NoRun
    /\ store = [p \in Personas |-> Absent]
    /\ memory_ops = NoOperations
    /\ \E before \in {<<>>, Earlier} :
          legacy = [history |-> [p \in Personas |-> IF p = "p1" THEN before ELSE <<>>],
                    inflight |-> {},
                    completed |-> [p \in Personas |-> IF p = "p1" THEN before ELSE <<>>],
                    started |-> 0]

\* process_message up to "await memory_task", :15-36.  The immediate reply
\* is the completion, or the apology of :89-91 when the client call fails.
LegacyCall(cid, ok) ==
    /\ legacy.started < MaxLegacyCalls
    /\ Cardinality(legacy.inflight) < MaxInFlight
    /\ LET utterance == MaxTurns + legacy.started
           immediate == Reply(utterance, IF ok THEN "immediate" ELSE "apology")
       IN  legacy' = [legacy EXCEPT
                         !.started = @ + 1,
                         !.inflight = @ \cup {[utterance |-> utterance, cid |-> cid,
                                               response |-> immediate]}]
    /\ UNCHANGED <<orchestration, structured, memory_ops>>

\* _update_conversation_history, :202-216: append the turn, keep the last
\* MaxTurns.
update_conversation_history(history, cid, utterance, response) ==
    [history EXCEPT ![cid] = LastN(Append(@, Turn(utterance, response)), MaxTurns)]

\* LegacyReturns without the truncation of :215-216.
LegacyReturns_Untrimmed(call, found, ok) ==
    /\ call \in legacy.inflight
    /\ legacy' = [legacy EXCEPT
                     !.inflight = @ \ {call},
                     !.history = [@ EXCEPT ![call.cid] =
                                     Append(@, Turn(call.utterance, call.response))],
                     !.completed = [@ EXCEPT ![call.cid] =
                                       Append(@, Turn(call.utterance, call.response))]]
    /\ UNCHANGED <<orchestration, structured, memory_ops>>

\* The retrieval task is done and process_message runs to its return,
\* :36-55: with recollections found the supplemented reply is generated
\* (or, on failure, the immediate reply stands in for it, :152-154) and
\* put in the result next to result["response"]; the turn recorded is
\* result["response"], :52.
LegacyReturns(call, found, ok) ==
    /\ call \in legacy.inflight
    /\ LET result == [response |-> call.response,
                      supplemented_response |->
                          IF ~found THEN Reply(call.utterance, "none")
                          ELSE IF ok THEN Reply(call.utterance, "supplemented")
                          ELSE call.response]
       IN  legacy' = [legacy EXCEPT
                         !.inflight = @ \ {call},
                         !.history = update_conversation_history(
                                         @, call.cid, call.utterance, result.response),
                         !.completed = [@ EXCEPT ![call.cid] =
                                           Append(@, Turn(call.utterance, call.response))]]
    /\ UNCHANGED <<orchestration, structured, memory_ops>>

LegacyNext ==
    \/ \E cid \in Personas, ok \in BOOLEAN : LegacyCall(cid, ok)
    \/ \E call \in legacy.inflight, found \in BOOLEAN, ok \in BOOLEAN :
           LegacyReturns(call, found, ok)

LegacySpec == LegacyInit /\ [][LegacyNext]_vars

(***************************************************************************)
(* ChromaMemoryStore used directly, vector_store.py:47-451.  The store is  *)
(* a function from collection names to collections; a stored memory is     *)
(* its id, its distance to the query text, and the metadata written by     *)
(* the add or the update.  The value of a nested field (time, emotion) is  *)
(* a dict or a string; what the metadata holds is a string.                *)
(***************************************************************************)
\* The number of ids a behaviour issues.
MaxMemories == 2

\* vector_store.py:57, f"character_memories_{character_id}" with every
\* persona mapped to one name.
get_character_collection_name_Shared(cid) == "character_memories_"

\* vector_store.py:57
get_character_collection_name(cid) == "character_memories_" \o cid

Names == {get_character_collection_name(p) : p \in Personas}

DictValue(name) == [kind |-> "dict", name |-> name]

\* A string that is not a JSON document.
TextValue(name) == [kind |-> "text", name |-> name]

\* The key a default-mode record does not have.
Missing == [kind |-> "missing", name |-> "none"]

\* vector_store.py:122, json.dumps(v) if isinstance(v, dict) else v
Serialise(v) == IF v.kind = "dict" THEN [kind |-> "json", name |-> v.name] ELSE v

\* vector_store.py:284-294: a str is parsed; one that does not parse
\* becomes {"raw_value": ..., "parse_error": True}.
Deserialise(s) ==
    CASE s.kind = "json" -> DictValue(s.name)
      [] s.kind = "text" -> [kind |-> "parse_error", name |-> s.name]
      [] OTHER -> s

\* The time and emotion of memory_data: the dicts of the module's own test
\* (vector_store.py:500-509) and the strings update_memory defaults to
\* (:384, :388).
MemoryData ==
    { [time |-> DictValue("t1"), emotion |-> DictValue("e1")],
      [time |-> TextValue(""), emotion |-> TextValue("neutral")] }

\* Distances of a memory's text to the query text: near, at the relevance
\* floor's far side, and beyond 2 (see Collections).
Dists == {100, 1200}

\* The metadata of vector_store.py:115-141 (add) and :376-391 (update)
StoredMemory(id, cid, data, d) ==
    [id |-> id, dist |-> d, character_id |-> cid,
     time |-> Serialise(data.time), emotion |-> Serialise(data.emotion)]

Outcome(op, cid, returned, list) ==
    [op |-> op, cid |-> cid, returned |-> returned, list |-> list]

\* Every variable of a run of flow.py but the store.
run_state == <<client_async, as_main, runs, pc, character_id, needs_memory,
               immediate_resp, memory_task, memories, calls, events, fatal,
               conversation_history, prompts, stream, retrieved>>

StoreInit ==
    /\ NoRun
    /\ store = [n \in Names |-> Absent]
    /\ legacy = NoLegacyCalls
    /\ memory_ops = NoOperations

IssuedIds == {i.id : i \in memory_ops.issued}

\* add_memories(character_id, memories_data), vector_store.py:153-225:
\* create_collection gets or creates the collection (:167), every memory
\* gets id str(uuid.uuid4()) (:176), and a non-empty batch is added in one
\* call (:218-223); when that call raises (ok = FALSE) the collection
\* stays created and empty of the batch.  add_memory (:102-151) is the
\* batch of one.
AddMemories(cid, batch, ok) ==
    /\ Cardinality(IssuedIds) + Len(batch) <= MaxMemories
    /\ LET name == get_character_collection_name(cid)
           first == Cardinality(IssuedIds)
           new == {StoredMemory(first + i, cid, batch[i].data, batch[i].dist) :
                       i \in 1..Len(batch)}
           added == ok \/ batch = <<>>
       IN  /\ store' = [store EXCEPT ![name] =
                           Collection(IF added THEN @.items \cup new ELSE @.items)]
           /\ memory_ops' =
                 [issued |-> memory_ops.issued \cup
                                 {[id |-> first + i, cid |-> cid] : i \in 1..Len(batch)},
                  given |-> memory_ops.given \cup
                                 {[id |-> first + i, data |-> batch[i].data] :
                                      i \in 1..Len(batch)},
                  cleared |-> memory_ops.cleared \ {cid},
                  last |-> Outcome("add", cid, IF added THEN "ids" ELSE "raised", <<>>)]
    /\ UNCHANGED <<run_state, structured, legacy>>

\* update_memory(character_id, memory_id, memory_data),
\* vector_store.py:362-410: a missing collection or a failing
\* collection.update gives False; collection.update rewrites the document
\* and the metadata of an id the collection holds and ignores any other.
UpdateMemory(cid, id, data, d, ok) ==
    /\ LET name == get_character_collection_name(cid)
           held == \E m \in store[name].items : m.id = id
           done == store[name].exists /\ ok
       IN  /\ store' = IF done /\ held
                       THEN [store EXCEPT ![name].items =
                                {m \in @ : m.id # id} \cup {StoredMemory(id, cid, data, d)}]
                       ELSE store
           /\ memory_ops' =
                 [memory_ops EXCEPT
                     !.given = IF done /\ held
                               THEN {g \in @ : g.id # id} \cup {[id |-> id, data |-> data]}
                               ELSE @,
                     !.last = Outcome("update", cid, IF done THEN "True" ELSE "False", <<>>)]
    /\ UNCHANGED <<run_state, structured, legacy>>

\* delete_memory(character_id, memory_id), vector_store.py:412-430
DeleteMemory(cid, id, ok) ==
    /\ LET name == get_character_collection_name(cid)
           done == store[name].exists /\ ok
       IN  /\ store' = IF done
                       THEN [store EXCEPT ![name].items = {m \in @ : m.id # id}]
                       ELSE store
           /\ memory_ops' =
                 [memory_ops EXCEPT
                     !.last = Outcome("delete", cid, IF done THEN "True" ELSE "False", <<>>)]
    /\ UNCHANGED <<run_state, structured, legacy>>

\* DeleteAllMemories answering True whether or not a collection existed,
\* as SimpleMemoryStore.clear_character_memories does
\* (session_simple.py:84-88).
DeleteAllMemories_AlwaysTrue(cid, ok) ==
    /\ LET name == get_character_collection_name(cid)
       IN  /\ store' = [store EXCEPT ![name] = Absent]
           /\ memory_ops' =
                 [memory_ops EXCEPT
                     !.cleared = @ \cup {cid},
                     !.last = Outcome("delete_all", cid, "True", <<>>)]
    /\ UNCHANGED <<run_state, structured, legacy>>

\* delete_all_memories(character_id), vector_store.py:432-451:
\* get_collection raises for a missing collection, delete_collection may
\* raise (ok = FALSE); either way False is returned and nothing deleted.
DeleteAllMemories(cid, ok) ==
    /\ LET name == get_character_collection_name(cid)
           done == store[name].exists /\ ok
       IN  /\ store' = IF done THEN [store EXCEPT ![name] = Absent] ELSE store
           /\ memory_ops' =
                 [memory_ops EXCEPT
                     !.cleared = IF done THEN @ \cup {cid} ELSE @,
                     !.last = Outcome("delete_all", cid,
                                      IF done THEN "True" ELSE "False", <<>>)]
    /\ UNCHANGED <<run_state, structured, legacy>>

\* The records query_memories builds, vector_store.py:270-315: relevance
\* from the distance (:297, :304/:312); the nested fields deserialised
\* (:279-294); in full mode the metadata spread into the record (:301-305),
\* in the default mode only id, type, title, content and relevance
\* (:307-313).
MemoryRecord(m, full) ==
    [id |-> m.id, relevance |-> Relevance(m.dist),
     time |-> IF full THEN Deserialise(m.time) ELSE Missing,
     emotion |-> IF full THEN Deserialise(m.emotion) ELSE Missing]

\* query_memories(character_id, query_text, n_results,
\* return_full_fields=full), vector_store.py:227-317.  With no type and no
\* importance filter the where clause is None (:266): the candidates are
\* the collection's.
QueryMemories(cid, n, full, ok) ==
    /\ LET name == get_character_collection_name(cid)
           found == FirstN(Nearest(store[name].items), n)
       IN  memory_ops' =
               [memory_ops EXCEPT
                   !.last = IF ~store[name].exists THEN Outcome("query", cid, "list", <<>>)
                            ELSE IF ~ok THEN Outcome("query", cid, "raised", <<>>)
                            ELSE Outcome("query", cid, IF full THEN "full" ELSE "list",
                                         [i \in 1..Len(found) |->
                                             MemoryRecord(found[i], full)])]
    /\ UNCHANGED <<store, run_state, structured, legacy>>

\* The batches of add_memories: none, one memory, two memories.
Batches ==
    {<<>>}
    \cup {<<[data |-> data, dist |-> d]>> : data \in MemoryData, d \in Dists}
    \cup {<<[data |-> data, dist |-> 100], [data |-> data, dist |-> 1200]>> :
              data \in MemoryData}

StoreNext ==
    \/ \E cid \in Personas, batch \in Batches, ok \in BOOLEAN : AddMemories(cid, batch, ok)
    \/ \E cid \in Personas, id \in IssuedIds, data \in MemoryData, d \in Dists,
          ok \in BOOLEAN : UpdateMemory(cid, id, data, d, ok)
    \/ \E cid \in Personas, id \in IssuedIds, ok \in BOOLEAN : DeleteMemory(cid, id, ok)
    \/ \E cid \in Personas, ok \in BOOLEAN : DeleteAllMemories(cid, ok)
    \/ \E cid \in Personas, n \in {1, DefaultNResults}, full \in BOOLEAN, ok \in BOOLEAN :
           QueryMemories(cid, n, full, ok)

StoreSpec == StoreInit /\ [][StoreNext]_vars

(***************************************************************************)
(* Properties.                                                             *)
(***************************************************************************)
EventTypes == [i \in 1..Len(events) |-> events[i].type]

SecondStageTypes == {"supplementary", "no_memory"}

\* The run is over: the generator returned or an exception left it.
RunOver == pc \in {"done", "raised"}

\* The persona of the run has no stored recollection.
ZeroStored == store[character_id].items = {}

\* C1: a run classified as needing recollection emits exactly one immediate
\* event and, after it, exactly one supplementary or no_memory event (read
\* for a run whose backend stayed reachable); a second-stage event is
\* always the second event, after an immediate one, and nothing follows it.
C1_ImmediateThenSecondStage ==
    /\ (RunOver /\ needs_memory = "yes" /\ ~fatal) =>
          /\ Len(events) = 2
          /\ events[1].type = "immediate"
          /\ events[2].type \in SecondStageTypes
    /\ \A i \in 1..Len(events) :
          events[i].type \in SecondStageTypes =>
             i = 2 /\ Len(events) = 2 /\ events[1].type = "immediate"

\* C2: a run classified as not needing recollection emits exactly one
\* event, of type direct, and nothing else (read for a run whose backend
\* stayed reachable).
C2_ExactlyOneDirect ==
    (RunOver /\ needs_memory = "no" /\ ~fatal) => EventTypes = <<"direct">>

\* C3: with the generation backend reachable, a run that is over has
\* emitted at least one and at most two events, whatever its stages did.
C3_OneOrTwoEvents ==
    (RunOver /\ ~fatal) => Len(events) \in {1, 2}

C5_ImmediateBeforeRetrievalCompletes ==
    memory_task.state \in {"pending", "querying"} =>
        /\ Len(events) = 1
        /\ events[1] = Event("immediate", immediate_resp, <<>>)

\* C5 witness: the first event is with the caller while the store query of
\* the retrieval task is still in flight.
C5_QueryRunsDuringDelivery ==
    /\ pc = "yield_immediate"
    /\ memory_task.state = "querying"
    /\ EventTypes = <<"immediate">>

\* C6: once the reflex composer call is over, however it ended (backend
\* reachable), the immediate event has been emitted and retrieval started.
C6_ReflexFailureStillImmediate ==
    (needs_memory = "yes" /\ pc # "reflex" /\ ~fatal) =>
        /\ events # <<>>
        /\ events[1].type = "immediate"
        /\ memory_task.state # "none"

\* The classifier replies that are malformed (not the label YES or NO, in
\* any case, blanks aside) or empty.
ClassifierFailures ==
    { reply \in ClassifierReplies :
         /\ reply.kind \in {"content", "no_choices"}
         /\ Upper(Strip(reply.text)) \notin {YES, Text(<<"N", "O">>, 0)} }

\* C7: every classifier reply that is malformed or empty sends the run to
\* the DIRECT branch.
C7_ClassifierFailureMeansDirect ==
    [][\A reply \in ClassifierFailures :
          ClassifierReturns(reply) => pc' = "direct"]_vars

\* C8: when the awaited retrieval task ended with an exception, the run
\* goes on to the no-memory composer.
C8_RetrievalFailureMeansNoMemory ==
    [][(pc = "await_memory" /\ memory_task.state = "raised" /\ pc' # pc)
          => pc' = "no_memory"]_vars

\* C9: for a persona with no stored recollection, a run classified as
\* needing recollection ends having emitted immediate, then no_memory (read
\* for a run whose backend stayed reachable).
C9_ZeroStoredEndsNoMemory ==
    (ZeroStored /\ needs_memory = "yes" /\ RunOver /\ ~fatal) =>
        EventTypes = <<"immediate", "no_memory">>

\* C10: the second event is supplementary iff the retrieval result is
\* non-empty and no_memory iff it is empty, and a run calls the supplement
\* composer or the no-memory composer, never both: the one the result
\* selects.
CallSet == {calls[i] : i \in 1..Len(calls)}

MaxLimit == 4

Limits == 1..MaxLimit

\* What a retrieval of persona cid with limit n returns when the
\* similarity query succeeds.
RetrievalOf(cid, n) == retrieve_relevant_memories(store, cid, n, TRUE).list

C12_NothingBelowFloor ==
    /\ \A cid \in Personas, n \in Limits :
          \A i \in 1..Len(RetrievalOf(cid, n)) :
              RetrievalOf(cid, n)[i].relevance >= RelevanceFloor
    /\ memory_task.state = "done" =>
          \A i \in 1..Len(memory_task.result) :
              memory_task.result[i].relevance >= RelevanceFloor

\* C12 witness: a retrieval completed on a collection holding recollections
\* at or below the floor, and returned only the one above it.
C12_LowCandidatesFiltered ==
    /\ memory_task.state = "done"
    /\ Len(memory_task.result) = 1
    /\ \E m \in store[character_id].items : Relevance(m.dist) <= RelevanceFloor

Descending(list) ==
    \A i, j \in 1..Len(list) : i < j => list[i].relevance >= list[j].relevance

\* C13: retrieval returns at most `limit` recollections, in descending
\* relevance, whatever the collection holds and whatever the limit.
C13_AtMostLimitDescending ==
    /\ \A cid \in Personas, n \in Limits :
          /\ Len(RetrievalOf(cid, n)) <= n
          /\ Descending(RetrievalOf(cid, n))
    /\ memory_task.state = "done" =>
          /\ Len(memory_task.result) <= DefaultNResults
          /\ Descending(memory_task.result)

\* C13 witness: a retrieval completed on a collection holding more
\* recollections than the limit and returned exactly the limit, the most
\* relevant first.
C13_LimitReached ==
    /\ memory_task.state = "done"
    /\ Cardinality(store[character_id].items) > DefaultNResults
    /\ Len(memory_task.result) = DefaultNResults
    /\ memory_task.result[1].relevance > memory_task.result[DefaultNResults].relevance

\* C14: for a persona without a collection, retrieval returns the empty
\* list and does not raise, whether or not the similarity backend works.
C14_NoCollectionEmptyResult ==
    /\ \A cid \in Personas, n \in Limits, ok \in BOOLEAN :
          ~store[cid].exists =>
              retrieve_relevant_memories(store, cid, n, ok) = Found(<<>>)
    /\ (memory_task.state \in {"done", "raised"} /\ ~store[character_id].exists) =>
          memory_task = [state |-> "done", result |-> <<>>]

\* C14 witness: the retrieval task of a run on a persona without a
\* collection has completed.
C14_RetrievedWithoutCollection ==
    /\ ~store[character_id].exists
    /\ memory_task.state = "done"
    /\ memory_task.result = <<>>
    /\ pc = "no_memory"

Finished == {i \in 1..Len(structured) : structured[i].state = "done"}

\* The text the backend returned to call i.
TextOf(i) == structured[i].response.text.chars

\* Call i got a text from the backend, and the text is not itself JSON.
NeedsRepair(i) ==
    /\ structured[i].response.status = "ok"
    /\ json_loads(TextOf(i)).status = "raise"

FenceTags == {"json", "js"}

\* The contents of the fenced blocks of t, whatever their tag: between a
\* fence line (three backquotes, a tag or none, a newline) and a newline
\* followed by a fence.
FencedContents(t) ==
    { SubSeq(t, p[1], p[2] - 1) : p \in
        { q \in (1..Len(t) + 1) \X (1..Len(t)) :
            /\ q[2] >= q[1] /\ q[2] < Len(t)
            /\ t[q[2]] = "\n" /\ t[q[2] + 1] = "FENCE"
            /\ \/ q[1] >= 3 /\ t[q[1] - 2] = "FENCE" /\ t[q[1] - 1] = "\n"
               \/ /\ q[1] >= 4 /\ t[q[1] - 3] = "FENCE"
                  /\ t[q[1] - 2] \in FenceTags /\ t[q[1] - 1] = "\n" } }

\* The values of the fenced blocks of t that hold valid JSON.
FencedDocs(t) ==
    { json_loads(c).doc : c \in {b \in FencedContents(t) : json_loads(b).status = "ok"} }

NoJsonIn(t) ==
    /\ json_loads(t).status = "raise"
    /\ FencedDocs(t) = {}
    /\ \A f, l \in 1..Len(t) :
          (f < l /\ t[f] = "{" /\ t[l] = "}") =>
              json_loads(SubSeq(t, f, l)).status = "raise"

\* C17: given a backend text, generate_structured_response never raises,
\* and given one from which no JSON can be parsed or extracted it returns
\* the record carrying the raw text and an error marker.
C17_UnparseableGivesErrorRecord ==
    \A i \in Finished :
        /\ structured[i].response.status = "ok" => structured[i].result.status = "ok"
        /\ (structured[i].response.status = "ok" /\ NoJsonIn(TextOf(i))) =>
              /\ structured[i].result.kind = "unparsed"
              /\ structured[i].result.text = TextOf(i)
              /\ structured[i].result.error # "none"

\* C17 witness: one call returned the record for prose without any brace,
\* another for a brace span that does not parse.
C17_ErrorRecordsReturned ==
    \E i, j \in Finished :
        /\ NoJsonIn(TextOf(i)) /\ NoJsonIn(TextOf(j))
        /\ structured[i].result = Unparsed(TextOf(i), "Failed to parse JSON")
        /\ structured[j].result = Unparsed(TextOf(j), "JSONDecodeError")

\* The backend's reply to call i has no choices or no message content.
EmptyReply(i) ==
    \/ structured[i].reply.kind = "no_choices"
    \/ structured[i].reply.kind = "content" /\ TextLen(structured[i].reply.text) = 0

\* C18: generate_response raises ValueError whenever the backend returns
\* no choices or no message content, and never returns the empty string.
C18_EmptyReplyRaises ==
    \A i \in Finished :
        /\ EmptyReply(i) => structured[i].response = Raised("ValueError")
        /\ structured[i].response.status = "ok" =>
              TextLen(structured[i].response.text) > 0

\* C18 witness: one call got a completion with empty content, another one
\* without choices, and both raised.
C18_BothEmptyRepliesRaised ==
    \E i, j \in Finished :
        /\ structured[i].reply = Content(EmptyText)
        /\ structured[j].reply = NoChoices
        /\ structured[i].result = StructuredRaised("ValueError")
        /\ structured[j].result = StructuredRaised("ValueError")

C20_NoErrorTextInStream ==
    ~fatal =>
        \A i \in 1..Len(stream) :
            /\ stream[i].kind \in {"direct", "immediate", "supplementary", "no_memory"}
            /\ stream[i].error = "none"

(***************************************************************************)
(* The supplement stage, the repair ladder, the relevance floor, the       *)
(* history window and the frame of a run.                                  *)
(***************************************************************************)
SupplementCalls == Cardinality({i \in 1..Len(calls) : calls[i] = "supplement"})

\* C22: the supplement composer is called at most twice in a run; the
\* second call is made if and only if the first draft, trimmed, is shorter
\* than the floor, and the second draft is returned whatever its length.
C22_AtMostTwoSupplementCalls ==
    /\ [](SupplementCalls <= 2)
    /\ [][\A reply \in ComposerReplies :
              (SupplementReturns(reply) /\ generate_response(reply).status = "ok") =>
                  /\ (pc' = "supplement_retry") <=>
                        (TextLen(Strip(reply.text)) < MinSupplementLen)
                  /\ (pc' = "supplement_retry") <=> (calls' = Append(calls, "supplement"))
                  /\ pc' \in {"supplement_retry", "done"}]_vars
    /\ [][\A reply \in ComposerReplies :
              (SupplementRetryReturns(reply) /\ generate_response(reply).status = "ok") =>
                  /\ pc' = "done"
                  /\ calls' = calls
                  /\ events' = Append(events,
                         Event("supplementary", Strip(reply.text), memories))]_vars

\* C22 witness: a run made two supplement calls and its supplementary
\* event carries a second draft that is still shorter than the floor.
C22_ShortSecondDraftAccepted ==
    /\ pc = "done"
    /\ SupplementCalls = 2
    /\ Len(events) = 2
    /\ events[2].type = "supplementary"
    /\ TextLen(events[2].content) < MinSupplementLen

RECURSIVE MatchingBrace(_, _, _)
\* The position of the "}" that brings the brace depth back to 0, scanning
\* t from position i at the given depth; 0 if there is none.
MatchingBrace(t, i, depth) ==
    IF i > Len(t) THEN 0
    ELSE IF t[i] = "{" THEN MatchingBrace(t, i + 1, depth + 1)
    ELSE IF t[i] = "}"
         THEN IF depth = 1 THEN i ELSE MatchingBrace(t, i + 1, depth - 1)
    ELSE MatchingBrace(t, i + 1, depth)

\* The first balanced brace span of t: from the leftmost "{" that has a
\* matching "}" to that "}".
FirstBalancedSpan(t) ==
    LET opens == {i \in 1..Len(t) : t[i] = "{" /\ MatchingBrace(t, i + 1, 1) # 0}
    IN  IF opens = {} THEN NoMatch
        ELSE LET f == CHOOSE i \in opens : \A o \in opens : i <= o
             IN  Match(SubSeq(t, f, MatchingBrace(t, f + 1, 1)))

\* What the three repair steps give when each failure falls through to the
\* next step: "unparsed" only when all of them fail.
LadderValue(t) ==
    LET fenced == FencedBlock(t)
        span == FirstBalancedSpan(t)
    IN  IF json_loads(t).status = "ok" THEN JsonValue(json_loads(t).doc)
        ELSE IF fenced.found /\ json_loads(fenced.group).status = "ok"
        THEN JsonValue(json_loads(fenced.group).doc)
        ELSE IF span.found /\ json_loads(span.group).status = "ok"
        THEN JsonValue(json_loads(span.group).doc)
        ELSE Unparsed(t, "any")

\* C23: generate_structured_response tries direct parsing, then the fenced
\* block, then the first balanced brace span, falling through on each
\* failure, and returns the unparsed record only when all three fail.
C23_RepairStepsFallThrough ==
    \A i \in Finished :
        structured[i].response.status = "ok" =>
            /\ structured[i].result.kind = LadderValue(TextOf(i)).kind
            /\ structured[i].result.doc = LadderValue(TextOf(i)).doc

\* The candidates of persona cid within limit n, before the floor.
CandidatesOf(cid, n) == query_memories(store, cid, n)

Ids(list) == {list[i].id : i \in 1..Len(list)}

\* C24 as stated: a candidate within the limit is discarded if and only if
\* its relevance is below 0.3; one at exactly 0.3 is returned.
C24_AtOrAboveFloorReturned ==
    memory_task.state = "done" =>
        Ids(memory_task.result) =
            {CandidatesOf(character_id, DefaultNResults)[i].id : i \in
                {j \in 1..Len(CandidatesOf(character_id, DefaultNResults)) :
                    CandidatesOf(character_id, DefaultNResults)[j].relevance
                        >= RelevanceFloor}}

\* C24: a candidate within the limit is discarded if and only if its
\* relevance is at or below 0.3: every one above 0.3 is returned, one at
\* exactly 0.3 is not.
C24_AboveFloorReturned ==
    /\ \A cid \in Personas, n \in Limits :
          Ids(RetrievalOf(cid, n)) =
              {CandidatesOf(cid, n)[i].id : i \in
                  {j \in 1..Len(CandidatesOf(cid, n)) :
                      CandidatesOf(cid, n)[j].relevance > RelevanceFloor}}
    /\ memory_task.state = "done" =>
          Ids(memory_task.result) =
              {m.id : m \in {x \in store[character_id].items :
                  /\ Relevance(x.dist) > RelevanceFloor
                  /\ Cardinality({y \in store[character_id].items :
                                     y.dist < x.dist}) < DefaultNResults}}

\* C24 witness: a retrieval completed on a collection with candidates at
\* 0.301, 0.300 and 0.299 and returned the first one only.
C24_ExactFloorDropped ==
    /\ memory_task.state = "done"
    /\ \E m \in store[character_id].items : Relevance(m.dist) = RelevanceFloor
    /\ \E m \in store[character_id].items : Relevance(m.dist) = RelevanceFloor + 1
    /\ Len(memory_task.result) = 1
    /\ memory_task.result[1].relevance = RelevanceFloor + 1

\* C26: every generation call of a run is given at most the last 6 turns
\* of the caller's history, the reflex composer at most the last 2 and
\* the classifier none.
C26_BoundedHistoryWindow ==
    \A i \in 1..Len(calls) :
        /\ Len(prompts[i]) <= 6
        /\ calls[i] = "reflex" => Len(prompts[i]) <= 2
        /\ calls[i] = "classifier" => prompts[i] = <<>>

\* C27: a run only reads the recollection store: no step of
\* ResponseFlow.process or of its retrieval task, on any branch, changes
\* the store.
C27_RunLeavesStoreUnchanged == [][store' = store]_vars

\* C27 witness: a run that retrieved recollections, delivered them and
\* ended, over a collection that still holds four recollections.
C27_RunOverStoreIntact ==
    /\ pc = "done"
    /\ EventTypes = <<"immediate", "supplementary">>
    /\ Cardinality(store[character_id].items) = 4
    /\ stream[2].memories # <<>>

(***************************************************************************)
(* The retained history of response_flow.py.                               *)
(***************************************************************************)
Utterances(turns) == [i \in 1..Len(turns) |-> turns[i].user_message]

\* C30: after any sequence of process_message calls, interleaved or not,
\* the history retained for a character holds at most 10 turns, they are
\* the most recently completed turns in completion order, every completed
\* call has appended exactly one turn, and the reply recorded in a turn is
\* the immediate reply to its utterance.
C30_RetainedHistoryIsLastTen ==
    \A p \in Personas :
        /\ Len(legacy.history[p]) <= MaxTurns
        /\ legacy.history[p] = LastN(legacy.completed[p], MaxTurns)
        /\ \A i, j \in 1..Len(legacy.history[p]) :
              i # j => legacy.history[p][i].user_message # legacy.history[p][j].user_message
        /\ \A i \in 1..Len(legacy.history[p]) :
              /\ legacy.history[p][i].response.of = legacy.history[p][i].user_message
              /\ legacy.history[p][i].response.kind \in {"immediate", "apology"}
        /\ (legacy.started > 0 /\ Len(legacy.completed[p]) <= MaxTurns) =>
              \A u \in MaxTurns..(MaxTurns + legacy.started - 1) :
                  Cardinality({i \in 1..Len(legacy.history[p]) :
                                  legacy.history[p][i].user_message = u})
                      = IF \E c \in legacy.inflight : c.utterance = u THEN 0
                        ELSE Cardinality({i \in 1..Len(legacy.completed[p]) :
                                             legacy.completed[p][i].user_message = u})

\* C30 witness: twelve turns of one character have completed, the last two
\* in the opposite order of their starts; its history holds the last ten.
C30_TruncatedAfterInterleaving ==
    /\ Len(legacy.completed["p1"]) = MaxTurns + 2
    /\ Len(legacy.history["p1"]) = MaxTurns
    /\ legacy.history["p1"][1].user_message = 3
    /\ legacy.history["p1"][MaxTurns].user_message
          < legacy.history["p1"][MaxTurns - 1].user_message

(***************************************************************************)
(* The store used directly.                                                *)
(***************************************************************************)
LastOp == memory_ops.last

GivenFor(id) == (CHOOSE g \in memory_ops.given : g.id = id).data

\* C21: every record returned by query_memories for a memory added with
\* dict-valued time and emotion carries time and emotion fields equal to
\* the values that were stored, in every query mode.
C21_NestedFieldsRoundTrip ==
    (LastOp.op = "query") =>
        \A i \in 1..Len(LastOp.list) :
            LET rec == LastOp.list[i]
                data == GivenFor(rec.id)
            IN  (data.time.kind = "dict" /\ data.emotion.kind = "dict") =>
                    (rec.time = data.time /\ rec.emotion = data.emotion)

\* C25: every relevance score query_memories attaches to a returned
\* recollection lies in [0,1] (0..1000 thousandths).
C25_RelevanceInUnitInterval ==
    (LastOp.op = "query") =>
        \A i \in 1..Len(LastOp.list) : LastOp.list[i].relevance \in 0..1000

SpaceOf(p) == store[get_character_collection_name(p)]

\* C28: every recollection belongs to exactly one persona's space: after
\* any sequence of add, update, delete and delete-all operations a query
\* for persona A returns only recollections added under A, ids are unique
\* within a space, no id is held by two spaces, and delete_all_memories(A)
\* leaves the recollections of every other persona unchanged.
C28_OnePersonaPerRecollection ==
    /\ [](\A p \in Personas :
            /\ \A m \in SpaceOf(p).items :
                  /\ [id |-> m.id, cid |-> p] \in memory_ops.issued
                  /\ m.character_id = p
            /\ \A m1, m2 \in SpaceOf(p).items : m1.id = m2.id => m1 = m2
            /\ \A q \in Personas \ {p} :
                  {m.id : m \in SpaceOf(p).items} \cap {m.id : m \in SpaceOf(q).items} = {}
            /\ (LastOp.op = "query" /\ LastOp.cid = p) =>
                  \A i \in 1..Len(LastOp.list) :
                      [id |-> LastOp.list[i].id, cid |-> p] \in memory_ops.issued)
    /\ [][memory_ops'.last.op = "delete_all" =>
              \A q \in Personas \ {memory_ops'.last.cid} :
                  store'[get_character_collection_name(q)]
                      = store[get_character_collection_name(q)]]_vars

\* C28 witness: both personas held recollections, delete_all_memories of
\* p1 returned True and the recollections of p2 are still there.
C28_OtherPersonaKept ==
    /\ LastOp = Outcome("delete_all", "p1", "True", <<>>)
    /\ \E i \in memory_ops.issued : i.cid = "p1"
    /\ SpaceOf("p2").items # {}
    /\ ~SpaceOf("p1").exists

\* C29 as stated: delete_all_memories(c) returns True exactly when a
\* collection for c existed before the call and False otherwise, changing
\* nothing then; after a call that returned True every query for c returns
\* the empty list until the next add for c.
C29_TrueExactlyWhenCollectionExisted ==
    /\ [][memory_ops'.last.op = "delete_all" =>
              /\ (memory_ops'.last.returned = "True")
                     <=> store[get_character_collection_name(memory_ops'.last.cid)].exists
              /\ (memory_ops'.last.returned = "False") => store' = store]_vars
    /\ []((LastOp.op = "query" /\ LastOp.cid \in memory_ops.cleared) =>
              LastOp = Outcome("query", LastOp.cid, "list", <<>>))

\* C29 amended: delete_all_memories(c) returns True exactly when a
\* collection for c existed before the call and the call deleted it; it
\* returns False otherwise (no collection, or the backend failed), changing
\* nothing then; after a call that returned True every query for c returns
\* the empty list until the next add for c.
C29_TrueExactlyWhenCollectionDeleted ==
    /\ [][memory_ops'.last.op = "delete_all" =>
              LET name == get_character_collection_name(memory_ops'.last.cid)
              IN  /\ (memory_ops'.last.returned = "True")
                         <=> (store[name].exists /\ ~store'[name].exists)
                  /\ (memory_ops'.last.returned # "True") =>
                         (memory_ops'.last.returned = "False" /\ store' = store)
                  /\ ~store[name].exists => memory_ops'.last.returned = "False"]_vars
    /\ []((LastOp.op = "query" /\ LastOp.cid \in memory_ops.cleared) =>
              LastOp = Outcome("query", LastOp.cid, "list", <<>>))

\* C29 witness: a persona that had recollections was cleared, the other
\* persona has been given recollections since, and a query for the cleared
\* persona has returned the empty list.
C29_QueryAfterClear ==
    /\ LastOp = Outcome("query", "p1", "list", <<>>)
    /\ "p1" \in memory_ops.cleared
    /\ \E i \in memory_ops.issued : i.cid = "p1"
    /\ SpaceOf("p2").items # {}

====
